---------------------------- MODULE Spec2Model ----------------------------
(***************************************************************************)
(* Model of the WasmRuntime of examples/wasm-languages/rust-template       *)
(* (src/lib.rs): two byte buffers owned by a runtime instance, the          *)
(* evaluator `eval`, the entry point `run` and the two accessors.           *)
(*                                                                         *)
(* A &str is modelled as a sequence of Unicode scalar values (code points), *)
(* a Vec<u8> as a sequence of bytes 0..255.  `as_bytes` is the UTF-8        *)
(* encoding and `from_utf8_lossy` the UTF-8 decoding with U+FFFD            *)
(* replacement, so that a buffer and the text read from it are different    *)
(* values related by a real conversion.                                     *)
(***************************************************************************)
EXTENDS Integers, Sequences, FiniteSets, TLC

VARIABLES
    runtimes,   \* instance id -> [stdout_buffer, stderr_buffer]   (program state)
    call,       \* instance id -> record of the last run() on the instance (history)
    seen        \* instance id -> texts the accessors returned since the last run()

vars == <<runtimes, call, seen>>

---------------------------------------------------------------------------
(* Characters and bytes                                                    *)

LPAREN == 40        \* '('
RPAREN == 41        \* ')'
NEWLINE == 10       \* '\n'

PRINT == <<112, 114, 105, 110, 116, 33>>                \* "print!"
PRINTLN == <<112, 114, 105, 110, 116, 108, 110, 33>>    \* "println!"
ERROR_PREFIX == <<69, 114, 114, 111, 114, 58, 32>>      \* "Error: "

\* char::is_whitespace: the code points with the Unicode White_Space property
White_Space ==
    {9, 10, 11, 12, 13, 32, 133, 160, 5760} \cup (8192..8202)
        \cup {8232, 8233, 8239, 8287, 12288}

\* UTF-8 encoding of one scalar value
encode_utf8(c) ==
    IF c < 128 THEN <<c>>
    ELSE IF c < 2048 THEN <<192 + (c \div 64), 128 + (c % 64)>>
    ELSE IF c < 65536
        THEN <<224 + (c \div 4096), 128 + ((c \div 64) % 64), 128 + (c % 64)>>
    ELSE <<240 + (c \div 262144), 128 + ((c \div 4096) % 64),
           128 + ((c \div 64) % 64), 128 + (c % 64)>>

\* str::as_bytes: the UTF-8 bytes of a string
RECURSIVE as_bytes(_)
as_bytes(s) ==
    IF s = <<>> THEN <<>> ELSE encode_utf8(Head(s)) \o as_bytes(Tail(s))

IsContinuation(b) == b \in 128..191

\* String::from_utf8_lossy(..).to_string(): decode, an undecodable byte
\* becoming U+FFFD; it never fails.
RECURSIVE from_utf8_lossy(_)
from_utf8_lossy(b) ==
    IF b = <<>> THEN <<>>
    ELSE LET n == Len(b)
             b0 == b[1]
         IN  IF b0 < 128 THEN <<b0>> \o from_utf8_lossy(Tail(b))
             ELSE IF b0 \in 194..223 /\ n >= 2 /\ IsContinuation(b[2])
                 THEN <<(b0 - 192) * 64 + (b[2] - 128)>>
                          \o from_utf8_lossy(SubSeq(b, 3, n))
             ELSE IF b0 \in 224..239 /\ n >= 3 /\ IsContinuation(b[2])
                     /\ IsContinuation(b[3])
                 THEN <<(b0 - 224) * 4096 + (b[2] - 128) * 64 + (b[3] - 128)>>
                          \o from_utf8_lossy(SubSeq(b, 4, n))
             ELSE IF b0 \in 240..244 /\ n >= 4 /\ IsContinuation(b[2])
                     /\ IsContinuation(b[3]) /\ IsContinuation(b[4])
                 THEN <<(b0 - 240) * 262144 + (b[2] - 128) * 4096
                            + (b[3] - 128) * 64 + (b[4] - 128)>>
                          \o from_utf8_lossy(SubSeq(b, 5, n))
             ELSE <<65533>> \o from_utf8_lossy(Tail(b))

---------------------------------------------------------------------------
(* String helpers of the standard library, as eval uses them               *)

\* str::trim_start_matches: drop every leading character that is in pat
RECURSIVE trim_start_matches(_, _)
trim_start_matches(s, pat) ==
    IF s # <<>> /\ Head(s) \in pat THEN trim_start_matches(Tail(s), pat) ELSE s

\* str::trim_end_matches: drop every trailing character that is in pat
RECURSIVE trim_end_matches(_, _)
trim_end_matches(s, pat) ==
    IF s # <<>> /\ s[Len(s)] \in pat
        THEN trim_end_matches(SubSeq(s, 1, Len(s) - 1), pat)
        ELSE s

trim_start_only(s) == trim_start_matches(s, White_Space)

\* str::trim: drop leading and trailing whitespace
trim(s) == trim_end_matches(trim_start_matches(s, White_Space), White_Space)

\* str::strip_prefix: Some(rest) when s starts with prefix, None otherwise
strip_prefix(s, prefix) ==
    IF Len(s) >= Len(prefix) /\ SubSeq(s, 1, Len(prefix)) = prefix
        THEN [some |-> TRUE, rest |-> SubSeq(s, Len(prefix) + 1, Len(s))]
        ELSE [some |-> FALSE, rest |-> <<>>]

---------------------------------------------------------------------------
(* WasmRuntime                                                             *)

\* Result<i32, String>
Ok(v) == [ok |-> TRUE, val |-> v, err |-> <<>>]
Err(m) == [ok |-> FALSE, val |-> 0, err |-> m]

\* WasmRuntime::new
new == [stdout_buffer |-> <<>>, stderr_buffer |-> <<>>]

\* one print arm of eval: strip the parentheses, write the line
print_arm(self, expr) ==
    LET content == trim_end_matches(trim_start_matches(expr, {LPAREN}), {RPAREN})
    IN  [self |-> [self EXCEPT !.stdout_buffer =
                        (@ \o as_bytes(content)) \o <<NEWLINE>>],
         result |-> Ok(0)]

eval_echo_raw(self, code0) ==
    LET code == trim(code0)
        p == strip_prefix(code, PRINT)
        pl == strip_prefix(code, PRINTLN)
    IN  IF code = <<>> THEN [self |-> self, result |-> Ok(0)]
        ELSE IF p.some THEN print_arm(self, p.rest)
        ELSE IF pl.some THEN print_arm(self, pl.rest)
        ELSE [self |-> [self EXCEPT !.stdout_buffer =
                            @ \o as_bytes(code0 \o <<NEWLINE>>)],
              result |-> Ok(0)]

eval_no_empty_check(self, code0) ==
    LET code == trim(code0)
        p == strip_prefix(code, PRINT)
        pl == strip_prefix(code, PRINTLN)
    IN  IF p.some THEN print_arm(self, p.rest)
        ELSE IF pl.some THEN print_arm(self, pl.rest)
        ELSE [self |-> [self EXCEPT !.stdout_buffer =
                            @ \o as_bytes(code \o <<NEWLINE>>)],
              result |-> Ok(0)]

eval_print_prefix(self, code0) ==
    LET code == trim(code0)
        p == strip_prefix(code, SubSeq(PRINT, 1, 5))
        pl == strip_prefix(code, PRINTLN)
    IN  IF code = <<>> THEN [self |-> self, result |-> Ok(0)]
        ELSE IF p.some THEN print_arm(self, p.rest)
        ELSE IF pl.some THEN print_arm(self, pl.rest)
        ELSE [self |-> [self EXCEPT !.stdout_buffer =
                            @ \o as_bytes(code \o <<NEWLINE>>)],
              result |-> Ok(0)]

eval_checks_parens(self, code0) ==
    LET code == trim(code0)
        p == strip_prefix(code, PRINT)
        pl == strip_prefix(code, PRINTLN)
        arg == IF p.some THEN p.rest ELSE pl.rest
    IN  IF code = <<>> THEN [self |-> self, result |-> Ok(0)]
        ELSE IF (p.some \/ pl.some) /\ (arg = <<>> \/ Head(arg) # LPAREN)
            THEN [self |-> self, result |-> Err(<<LPAREN>>)]
        ELSE IF p.some THEN print_arm(self, p.rest)
        ELSE IF pl.some THEN print_arm(self, pl.rest)
        ELSE [self |-> [self EXCEPT !.stdout_buffer =
                            @ \o as_bytes(code \o <<NEWLINE>>)],
              result |-> Ok(0)]

\* WasmRuntime::eval(&mut self, code) -> Result<i32, String>:
\* the runtime after the call and the value returned
eval(self, code0) ==
    LET code == trim(code0)
        p == strip_prefix(code, PRINT)
        pl == strip_prefix(code, PRINTLN)
    IN  IF code = <<>> THEN [self |-> self, result |-> Ok(0)]
        ELSE IF p.some
            THEN LET content == trim_end_matches(
                                    trim_start_matches(p.rest, {LPAREN}), {RPAREN})
                 IN  [self |-> [self EXCEPT !.stdout_buffer =
                                    (@ \o as_bytes(content)) \o <<NEWLINE>>],
                      result |-> Ok(0)]
        ELSE IF pl.some
            THEN LET content == trim_end_matches(
                                    trim_start_matches(pl.rest, {LPAREN}), {RPAREN})
                 IN  [self |-> [self EXCEPT !.stdout_buffer =
                                    (@ \o as_bytes(content)) \o <<NEWLINE>>],
                      result |-> Ok(0)]
        ELSE LET output == code \o <<NEWLINE>>
             IN  [self |-> [self EXCEPT !.stdout_buffer = @ \o as_bytes(output)],
                  result |-> Ok(0)]

\* the match of run on the evaluator's outcome e
run_match(e) ==
    IF e.result.ok
        THEN [self |-> e.self, ret |-> e.result.val, result |-> e.result]
        ELSE [self |-> [e.self EXCEPT !.stderr_buffer =
                            @ \o as_bytes((ERROR_PREFIX \o e.result.err)
                                              \o <<NEWLINE>>)],
              ret |-> 1,
              result |-> e.result]

run_no_clear(self, code) == run_match(eval(self, code))

run_always_reports(self, code) ==
    LET e == eval(new, code)
        r == run_match(e)
    IN  [r EXCEPT !.self.stderr_buffer =
             @ \o as_bytes((ERROR_PREFIX \o e.result.err) \o <<NEWLINE>>)]

\* WasmRuntime::run(&mut self, code) -> i32: clear both buffers, evaluate,
\* convert a failure into a line of stderr and status 1
run(self, code) ==
    LET cleared == [self EXCEPT !.stdout_buffer = <<>>, !.stderr_buffer = <<>>]
    IN  run_match(eval(cleared, code))

get_stdout_drains(self) ==
    [self |-> [self EXCEPT !.stdout_buffer = <<>>],
     ret |-> from_utf8_lossy(self.stdout_buffer)]

\* WasmRuntime::get_stdout(&self) -> String
get_stdout(self) ==
    [self |-> self, ret |-> from_utf8_lossy(self.stdout_buffer)]

\* WasmRuntime::get_stderr(&self) -> String
get_stderr(self) ==
    [self |-> self, ret |-> from_utf8_lossy(self.stderr_buffer)]

run_code_shared(rts, i, code) ==
    LET r == run(rts[i], code)
    IN  [rts |-> [j \in DOMAIN rts |-> r.self], ret |-> r.ret, result |-> r.result]

\* run_code(runtime: &mut WasmRuntime, code): run on the one instance borrowed
run_code(rts, i, code) ==
    LET r == run(rts[i], code)
    IN  [rts |-> [rts EXCEPT ![i] = r.self], ret |-> r.ret, result |-> r.result]

---------------------------------------------------------------------------
(* Inputs                                                                  *)

MaxBody == 2        \* characters after the head of a snippet
MaxRuntimes == 2    \* instances the host creates in SpecIso

BodyChars == {40, 41, 32, 233}      \* '(' ')' ' ' and a two-byte letter
Heads == {<<>>, PRINT, PRINTLN, SubSeq(PRINT, 1, 5)}

Seqs(S, n) == UNION {[1..k -> S] : k \in 0..n}
Bodies == Seqs(BodyChars, MaxBody)

\* a head and a body, and the short ones again behind a leading line break
Snippets ==
    {h \o b : h \in Heads, b \in Bodies}
        \cup {(<<10>> \o h) \o b : h \in Heads, b \in Seqs(BodyChars, 1)}

IsoSnippets ==
    {<<>>, <<233>>, <<32, 40, 32>>, PRINT \o <<40, 233, 41>>, PRINTLN \o <<41>>}

---------------------------------------------------------------------------
(* The host's operations                                                   *)

NoText == <<-1>>    \* no text read yet (a text holds code points >= 0)

NoCall == [ran |-> FALSE, code |-> <<>>, dirty |-> FALSE,
           result |-> Ok(0), status |-> 0]
NoSeen == [out |-> NoText, err |-> NoText]

Dirty(rt) == rt.stdout_buffer # <<>> \/ rt.stderr_buffer # <<>>

\* one instance exists: the state after create_runtime()
Init ==
    /\ runtimes = [i \in {1} |-> new]
    /\ call = [i \in {1} |-> NoCall]
    /\ seen = [i \in {1} |-> NoSeen]

\* create_runtime(): one more instance, with empty buffers
Create ==
    /\ Cardinality(DOMAIN runtimes) < MaxRuntimes
    /\ LET id == Cardinality(DOMAIN runtimes) + 1
       IN  /\ runtimes' = [i \in DOMAIN runtimes \cup {id} |->
                              IF i = id THEN new ELSE runtimes[i]]
           /\ call' = [i \in DOMAIN runtimes \cup {id} |->
                          IF i = id THEN NoCall ELSE call[i]]
           /\ seen' = [i \in DOMAIN runtimes \cup {id} |->
                          IF i = id THEN NoSeen ELSE seen[i]]

\* run_code(instance i, code)
Execute(i, code) ==
    LET r == run_code(runtimes, i, code)
    IN  /\ runtimes' = r.rts
        /\ call' = [call EXCEPT ![i] =
                        [ran |-> TRUE, code |-> code, dirty |-> Dirty(runtimes[i]),
                         result |-> r.result, status |-> r.ret]]
        /\ seen' = [seen EXCEPT ![i] = NoSeen]

\* instance i .get_stdout()
ReadStdout(i) ==
    LET g == get_stdout(runtimes[i])
    IN  /\ runtimes' = [runtimes EXCEPT ![i] = g.self]
        /\ seen' = [seen EXCEPT ![i].out = g.ret]
        /\ UNCHANGED call

\* instance i .get_stderr()
ReadStderr(i) ==
    LET g == get_stderr(runtimes[i])
    IN  /\ runtimes' = [runtimes EXCEPT ![i] = g.self]
        /\ seen' = [seen EXCEPT ![i].err = g.ret]
        /\ UNCHANGED call

Next ==
    \/ \E i \in DOMAIN runtimes : \E code \in Snippets : Execute(i, code)
    \/ \E i \in DOMAIN runtimes : ReadStdout(i)
    \/ \E i \in DOMAIN runtimes : ReadStderr(i)

Spec == Init /\ [][Next]_vars

NextIso ==
    \/ Create
    \/ \E i \in DOMAIN runtimes : \E code \in IsoSnippets : Execute(i, code)
    \/ \E i \in DOMAIN runtimes : ReadStdout(i)
    \/ \E i \in DOMAIN runtimes : ReadStderr(i)

SpecIso == Init /\ [][NextIso]_vars

TypeOK ==
    /\ DOMAIN runtimes = DOMAIN call
    /\ DOMAIN runtimes = DOMAIN seen
    /\ \A i \in DOMAIN runtimes :
        /\ \A k \in 1..Len(runtimes[i].stdout_buffer) :
               runtimes[i].stdout_buffer[k] \in 0..255
        /\ \A k \in 1..Len(runtimes[i].stderr_buffer) :
               runtimes[i].stderr_buffer[k] \in 0..255

---------------------------------------------------------------------------
(* Vocabulary of the properties, defined apart from the code's helpers     *)

Instances == DOMAIN runtimes

IsBlank(s) == \A k \in 1..Len(s) : s[k] \in White_Space

\* s without its leading and trailing whitespace
Trimmed(s) ==
    IF IsBlank(s) THEN <<>>
    ELSE LET solid == {k \in 1..Len(s) : s[k] \notin White_Space}
             first == CHOOSE k \in solid : \A m \in solid : k <= m
             last == CHOOSE k \in solid : \A m \in solid : k >= m
         IN  SubSeq(s, first, last)

StartsWith(s, p) == Len(s) >= Len(p) /\ \A k \in 1..Len(p) : s[k] = p[k]

After(s, p) == SubSeq(s, Len(p) + 1, Len(s))

IsPrintLike(s) == StartsWith(s, PRINT) \/ StartsWith(s, PRINTLN)

\* the argument text of a print-like snippet
Argument(s) == IF StartsWith(s, PRINTLN) THEN After(s, PRINTLN) ELSE After(s, PRINT)

\* one leading '(' and one trailing ')' removed, where present
StripOneLayer(s) ==
    LET a == IF s # <<>> /\ s[1] = LPAREN THEN Tail(s) ELSE s
    IN  IF a # <<>> /\ a[Len(a)] = RPAREN THEN SubSeq(a, 1, Len(a) - 1) ELSE a

\* the same snippet spelled with the other print marker
Sibling(s) ==
    IF StartsWith(s, PRINTLN) THEN PRINT \o After(s, PRINTLN)
    ELSE PRINTLN \o After(s, PRINT)

Line(text) == as_bytes(text) \o <<NEWLINE>>

Messages == {<<>>, <<233>>, <<40, 32, 41>>}

---------------------------------------------------------------------------
(* Properties                                                              *)

\* C1: a fresh instance has two empty buffers, and after any sequence of run
\* calls the buffers and the texts read from them are those of a fresh
\* instance that ran the last snippet only.
C1_BufferLifecycle ==
    \A i \in Instances :
        IF call[i].ran
            THEN LET f == run(new, call[i].code).self
                 IN  /\ runtimes[i] = f
                     /\ get_stdout(runtimes[i]).ret = get_stdout(f).ret
                     /\ get_stderr(runtimes[i]).ret = get_stderr(f).ret
            ELSE /\ runtimes[i].stdout_buffer = <<>>
                 /\ runtimes[i].stderr_buffer = <<>>

\* an instance whose last run found output of an earlier run and wrote its own
C1_Witness ==
    \E i \in Instances :
        /\ call[i].ran
        /\ call[i].dirty
        /\ runtimes[i].stdout_buffer # <<>>

\* C2: a snippet that begins, once trimmed, with print! or println! returns
\* 0, leaves stderr empty and sets stdout to the argument text with ONE
\* leading '(' and ONE trailing ')' removed, followed by one line terminator.
C2_SingleLayerStrip ==
    \A i \in Instances :
        (call[i].ran /\ IsPrintLike(Trimmed(call[i].code))) =>
            /\ call[i].status = 0
            /\ runtimes[i].stderr_buffer = <<>>
            /\ runtimes[i].stdout_buffer =
                   Line(StripOneLayer(Argument(Trimmed(call[i].code))))

\* C3: a snippet that is empty or only whitespace returns 0 and leaves both
\* buffers empty, whatever earlier runs had written.
C3_EmptySnippet ==
    \A i \in Instances :
        (call[i].ran /\ IsBlank(call[i].code)) =>
            /\ call[i].status = 0
            /\ runtimes[i].stdout_buffer = <<>>
            /\ runtimes[i].stderr_buffer = <<>>

\* a whitespace-only snippet was run on an instance that held output
C3_Witness ==
    \E i \in Instances :
        /\ call[i].ran
        /\ call[i].code # <<>>
        /\ IsBlank(call[i].code)
        /\ call[i].dirty

\* C4: a snippet whose trimmed text is non-empty and begins with neither
\* marker returns 0, leaves stderr empty and sets stdout to the trimmed text
\* followed by one line terminator.
C4_Fallback ==
    \A i \in Instances :
        (/\ call[i].ran
         /\ ~IsBlank(call[i].code)
         /\ ~IsPrintLike(Trimmed(call[i].code))) =>
            /\ call[i].status = 0
            /\ runtimes[i].stderr_buffer = <<>>
            /\ runtimes[i].stdout_buffer = Line(Trimmed(call[i].code))

\* a fallback snippet with whitespace around it and a multi-byte character
C4_Witness ==
    \E i \in Instances :
        /\ call[i].ran
        /\ ~IsBlank(call[i].code)
        /\ ~IsPrintLike(Trimmed(call[i].code))
        /\ call[i].code # Trimmed(call[i].code)
        /\ \E k \in 1..Len(call[i].code) : call[i].code[k] > 127

\* C5: print! + T and println! + T give the same status, stdout and stderr,
\* whatever the instance held before; a println! snippet is not taken for a
\* fallback.
C5_MarkersIdentical ==
    \A i \in Instances :
        (call[i].ran /\ IsPrintLike(call[i].code)) =>
            LET other == run(new, Sibling(call[i].code))
            IN  /\ other.ret = call[i].status
                /\ other.self = runtimes[i]
                /\ runtimes[i].stdout_buffer # Line(call[i].code)

\* a println! snippet with an argument, run on an instance that held output
C5_Witness ==
    \E i \in Instances :
        /\ call[i].ran
        /\ StartsWith(call[i].code, PRINTLN)
        /\ Len(call[i].code) > Len(PRINTLN)
        /\ call[i].dirty

\* C6: no snippet makes evaluation fail: every run returned 0 and stderr is
\* empty in every reachable state.
C6_NoFailure ==
    \A i \in Instances :
        /\ call[i].result.ok
        /\ call[i].status = 0
        /\ runtimes[i].stderr_buffer = <<>>
        /\ seen[i].err \in {NoText, <<>>}

\* a print-like snippet with malformed parentheses was run, and stderr read
C6_Witness ==
    \E i \in Instances :
        /\ call[i].ran
        /\ IsPrintLike(call[i].code)
        /\ Argument(call[i].code) # <<>>
        /\ Head(Argument(call[i].code)) # LPAREN
        /\ seen[i].err # NoText

\* C7: run converts every failure Err(m) of the evaluator into status 1 and
\* the stderr text "Error: m\n" on the reset buffer, returns a success
\* status unchanged with nothing on stderr, and so after every run the
\* status is 1 exactly when stderr is non-empty.
C7_FailureConversion ==
    \A i \in Instances :
        /\ \A m \in Messages :
               LET cleared == [runtimes[i] EXCEPT !.stdout_buffer = <<>>,
                                                  !.stderr_buffer = <<>>]
                   r == run_match([self |-> cleared, result |-> Err(m)])
               IN  /\ r.ret = 1
                   /\ r.self.stderr_buffer = Line(ERROR_PREFIX \o m)
                   /\ r.self.stdout_buffer = <<>>
        /\ call[i].ran =>
               /\ ~call[i].result.ok =>
                      /\ call[i].status = 1
                      /\ runtimes[i].stderr_buffer =
                             Line(ERROR_PREFIX \o call[i].result.err)
               /\ call[i].result.ok =>
                      /\ call[i].status = call[i].result.val
                      /\ runtimes[i].stderr_buffer = <<>>
               /\ (call[i].status = 1) <=> (runtimes[i].stderr_buffer # <<>>)

\* a run whose evaluation succeeded, on an instance that held output
C7_Witness ==
    \E i \in Instances :
        /\ call[i].ran
        /\ call[i].result.ok
        /\ call[i].dirty
        /\ runtimes[i].stdout_buffer # <<>>

\* C8: the accessors leave both buffers as they are: a text read since the
\* last run is still the decoding of its buffer, so reading again, in any
\* order, returns the same text.
C8_AccessorsPure ==
    \A i \in Instances :
        /\ seen[i].out # NoText =>
               seen[i].out = from_utf8_lossy(runtimes[i].stdout_buffer)
        /\ seen[i].err # NoText =>
               seen[i].err = from_utf8_lossy(runtimes[i].stderr_buffer)
        /\ (seen[i].out # NoText /\ call[i].ran) =>
               seen[i].out = get_stdout(run(new, call[i].code).self).ret

\* both streams were read after a run that wrote a multi-byte character
C8_Witness ==
    \E i \in Instances :
        /\ call[i].ran
        /\ seen[i].out # NoText
        /\ seen[i].err # NoText
        /\ \E k \in 1..Len(seen[i].out) : seen[i].out[k] = 233

\* C9: a run on one instance leaves every other instance's buffers alone:
\* the buffers of each of two instances are those of its own last snippet.
C9_Isolation ==
    \A i \in Instances : \A j \in Instances \ {i} :
        /\ runtimes[i] = IF call[i].ran THEN run(new, call[i].code).self ELSE new
        /\ runtimes[j] = IF call[j].ran THEN run(new, call[j].code).self ELSE new

\* two instances that both ran and hold different output
C9_Witness ==
    \E i \in Instances : \E j \in Instances \ {i} :
        /\ call[i].ran
        /\ call[j].ran
        /\ runtimes[i].stdout_buffer # <<>>
        /\ runtimes[j].stdout_buffer # <<>>
        /\ runtimes[i].stdout_buffer # runtimes[j].stdout_buffer

\* C10: run(S) and run(trim(S)) agree on status, stdout and stderr; the
\* whitespace around S does not reach stdout nor hide a marker, and stdout
\* is non-empty exactly when trim(S) is non-empty.
C10_TrimInvariance ==
    \A i \in Instances :
        call[i].ran =>
            LET t == Trimmed(call[i].code)
                r == run(new, t)
            IN  /\ r.ret = call[i].status
                /\ r.self = runtimes[i]
                /\ (runtimes[i].stdout_buffer # <<>>) <=> (t # <<>>)
                /\ Len(runtimes[i].stdout_buffer) <= Len(Line(t))
                /\ IsPrintLike(t) => runtimes[i].stdout_buffer # Line(t)

\* a print-like snippet with whitespace before and after it was run
C10_Witness ==
    \E i \in Instances :
        /\ call[i].ran
        /\ call[i].code # <<>>
        /\ Head(call[i].code) \in White_Space
        /\ call[i].code[Len(call[i].code)] \in White_Space
        /\ IsPrintLike(Trimmed(call[i].code))

=============================================================================
